---- MODULE Spec2Model ----
(***************************************************************************)
(* Model of the youth-talent-fest dashboard.                               *)
(*                                                                         *)
(*   - LeaderboardPage (pages/leaderboard.tsx): calculateLeaderboards,     *)
(*     the five parallel queries, the aggregation into branchRankings,     *)
(*     kalaprathibha and kalathilakam, and the render switch.              *)
(*   - SchedulePage (app/schedule/page.tsx): the initial fetch, the        *)
(*     postgres_changes UPDATE handler and the channel's lifetime.         *)
(*   - ResultsPage (app/page.tsx): the events fetch, handleEventClick      *)
(*     and the results modal.                                              *)
(*                                                                         *)
(* JavaScript values are encoded as follows.  An array is a sequence.  A   *)
(* Map is a sequence of <<key, value>> pairs in insertion order.  A value  *)
(* that may be null is a sequence of length at most one (<<>> is null),    *)
(* except the gender column, whose null is the string Null.  The locals    *)
(* branchPoints and allIndividuals of calculateLeaderboards and the        *)
(* handler's updatedEvent are kept as variables, so that the properties    *)
(* can speak of them.                                                      *)
(***************************************************************************)
EXTENDS Integers, Sequences, FiniteSets, TLC

VARIABLES
    \* ---- LeaderboardPage ----
    lbPc,            \* position of calculateLeaderboards: "init", "awaiting", "done"
    responses,       \* what the five queries of Promise.all resolved to
    branchRankings,  \* useState<BranchRanking[]>
    kalaprathibha,   \* useState<IndividualRanking[]>
    kalathilakam,    \* useState<IndividualRanking[]>
    branchPoints,    \* the local Map branchPoints when the calculation ends
    allIndividuals,  \* the local array allIndividuals when the calculation ends
    loading,         \* useState(true)
    error,           \* useState<string | null>(null)
    \* ---- SchedulePage ----
    mounted,         \* whether the SchedulePage component is mounted
    schedPc,         \* position of fetchAndGroupEvents: "init", "awaiting", "done"
    fetchedEvents,   \* the local events of fetchAndGroupEvents, <<>> before it is set
    channel,         \* the realtime channel: "none", "subscribed", "removed"
    groupedEvents,   \* useState<GroupedEvents>({})
    updatedEvent,    \* payload.new of the last notification handled
    delivered,       \* per event_id, payload.new of the last notification delivered
    scheduleLoading, \* useState(true)
    scheduleError,   \* useState<string | null>(null)
    \* ---- ResultsPage ----
    resultsPc,       \* position of fetchAllEvents: "init", "awaiting", "done"
    resultsEvents,   \* useState<EventType[]>([])
    resultsLoading,  \* useState(true)
    resultsError,    \* useState<string | null>(null)
    clickedEvent,    \* the event of the last call of handleEventClick
    selectedEvent,   \* useState<EventType | null>(null)
    eventResults,    \* useState<EventResultType[]>([])
    isModalLoading,  \* useState(false)
    resultQueries    \* event_id of each results query awaited by a handleEventClick

lbVars == <<lbPc, responses, branchRankings, kalaprathibha, kalathilakam,
            branchPoints, allIndividuals, loading, error>>

schedVars ==
    <<mounted, schedPc, fetchedEvents, channel, groupedEvents, updatedEvent,
      delivered, scheduleLoading, scheduleError>>

resultsVars ==
    <<resultsPc, resultsEvents, resultsLoading, resultsError, clickedEvent,
      selectedEvent, eventResults, isModalLoading, resultQueries>>


\* ------------------------------------------------------------------------
\* Bounds of the model

\* Total number of rows the five tables hold together.
MaxRows == 5

Null == "null"

BranchIds == {1, 2}
EventIds == {1, 2}
ChestNos == {1, 2}
PointValues == {-1, 2}
ErrorMessages == {"", "timeout"}

\* ------------------------------------------------------------------------
\* Generic helpers

RECURSIVE SumSeq(_)
SumSeq(s) == IF s = <<>> THEN 0 ELSE Head(s) + SumSeq(Tail(s))

SeqsUpTo(S, n) == UNION {[1..k -> S] : k \in 0..n}

\* ------------------------------------------------------------------------
\* JavaScript Map: insertion-ordered, a set of an existing key keeps the
\* key's position and overwrites its value.

MapHas(m, k) == \E i \in 1..Len(m) : m[i][1] = k

MapGet(m, k) == m[CHOOSE i \in 1..Len(m) : m[i][1] = k][2]

MapSet(m, k, v) ==
    IF MapHas(m, k)
    THEN [i \in 1..Len(m) |-> IF m[i][1] = k THEN <<k, v>> ELSE m[i]]
    ELSE Append(m, <<k, v>>)

\* Array.from(map.values())
MapValues(m) == [i \in 1..Len(m) |-> m[i][2]]

\* SortDesc with the comparator the other way round, (a, b) => a[field] - b[field].
SortAsc(s, field) ==
    LET Before(i) ==
            Cardinality({j \in 1..Len(s) :
                            \/ s[j][field] < s[i][field]
                            \/ s[j][field] = s[i][field] /\ j < i})
    IN  [p \in 1..Len(s) |-> s[CHOOSE i \in 1..Len(s) : Before(i) + 1 = p]]

\* Array.prototype.sort with the comparator (a, b) => b[field] - a[field]: the
\* sort is stable, so an element goes after every element with a larger key
\* and after the earlier elements with an equal key (the field's value).
SortDesc(s, field) ==
    LET Before(i) ==
            Cardinality({j \in 1..Len(s) :
                            \/ s[j][field] > s[i][field]
                            \/ s[j][field] = s[i][field] /\ j < i})
    IN  [p \in 1..Len(s) |-> s[CHOOSE i \in 1..Len(s) : Before(i) + 1 = p]]

\* ------------------------------------------------------------------------
\* Rows of the five tables

BranchNames == <<"Alpha", "Beta">>
EntryNames == <<"Asha", "Binu">>

BranchRow(id) == [branch_id |-> id, branch_name |-> BranchNames[id]]

\* The model's two events: event 1 is an Individual event, event 2 a Group
\* event; either may or may not count for the championship.
EventTypes == <<"Individual", "Group">>

EventRows ==
    {[event_id |-> id, event_type |-> EventTypes[id], is_championship_event |-> c] :
        id \in EventIds, c \in BOOLEAN}

\* An entry is an individual of either gender or of none, or a group.
EntryRows ==
    {[chest_no |-> c, branch_id |-> b, entry_type |-> k[1], gender |-> k[2],
      entry_name |-> EntryNames[c]] :
        c \in ChestNos, b \in BranchIds,
        k \in {<<"Individual", "Male">>, <<"Individual", "Female">>,
               <<"Individual", Null>>, <<"Group", Null>>}}

ResultRows == [chest_no : ChestNos, event_id : EventIds, points_awarded : PointValues]

TeamMemberRows == [group_chest_no : ChestNos, member_chest_no : ChestNos]

\* ------------------------------------------------------------------------
\* calculateLeaderboards: the lookup maps

RECURSIVE EventMapFrom(_, _)
EventMapFrom(m, events) ==
    IF events = <<>> THEN m
    ELSE EventMapFrom(MapSet(m, Head(events).event_id, Head(events)), Tail(events))

eventMap(events) == EventMapFrom(<<>>, events)

RECURSIVE EntryMapFrom(_, _)
EntryMapFrom(m, entries) ==
    IF entries = <<>> THEN m
    ELSE EntryMapFrom(MapSet(m, Head(entries).chest_no, Head(entries)), Tail(entries))

entryMap(entries) == EntryMapFrom(<<>>, entries)

RECURSIVE BranchMapFrom(_, _)
BranchMapFrom(m, branches) ==
    IF branches = <<>> THEN m
    ELSE BranchMapFrom(MapSet(m, Head(branches).branch_id, Head(branches)), Tail(branches))

branchMap(branches) == BranchMapFrom(<<>>, branches)

\* ------------------------------------------------------------------------
\* calculateLeaderboards, part B: branch rankings

\* "Initialize all branches"
RECURSIVE InitBranchPoints(_, _)
InitBranchPoints(bp, branches) ==
    IF branches = <<>> THEN bp
    ELSE InitBranchPoints(
             MapSet(bp, Head(branches).branch_id,
                    [branch_id |-> Head(branches).branch_id,
                     branch_name |-> Head(branches).branch_name,
                     official_points |-> 0,
                     total_points |-> 0]),
             Tail(branches))

\* AddBranchPoints without the test of is_championship_event.
AddBranchPointsAlwaysOfficial(ranking, event, points) ==
    [ranking EXCEPT
        !.total_points = @ + points,
        !.official_points = @ + points]

\* AddBranchPoints with the two fields swapped.
AddBranchPointsSwapped(ranking, event, points) ==
    [ranking EXCEPT
        !.official_points = @ + points,
        !.total_points = IF event.is_championship_event THEN @ + points ELSE @]

\* The two additions made to a ranking for one result of the given event.
AddBranchPoints(ranking, event, points) ==
    [ranking EXCEPT
        !.total_points = @ + points,
        !.official_points = IF event.is_championship_event THEN @ + points ELSE @]

\* One iteration of "Process results".
BranchResultStep(bp, result, events, entries) ==
    IF ~MapHas(eventMap(events), result.event_id)
         \/ ~MapHas(entryMap(entries), result.chest_no)
    THEN bp
    ELSE LET event == MapGet(eventMap(events), result.event_id)
             entry == MapGet(entryMap(entries), result.chest_no)
         IN  IF ~MapHas(bp, entry.branch_id) THEN bp
             ELSE MapSet(bp, entry.branch_id,
                         AddBranchPoints(MapGet(bp, entry.branch_id), event,
                                         result.points_awarded))

\* BranchResultLoop stopping one result early.
RECURSIVE BranchResultLoopOffByOne(_, _, _, _)
BranchResultLoopOffByOne(bp, results, events, entries) ==
    IF Len(results) <= 1 THEN bp
    ELSE BranchResultLoopOffByOne(BranchResultStep(bp, Head(results), events, entries),
                                  Tail(results), events, entries)

RECURSIVE BranchResultLoop(_, _, _, _)
BranchResultLoop(bp, results, events, entries) ==
    IF results = <<>> THEN bp
    ELSE BranchResultLoop(BranchResultStep(bp, Head(results), events, entries),
                          Tail(results), events, entries)

branchPointsOf(branches, events, entries, results) ==
    BranchResultLoop(InitBranchPoints(<<>>, branches), results, events, entries)

sortedBranchRankings(branches, events, entries, results) ==
    SortDesc(MapValues(branchPointsOf(branches, events, entries, results)),
             "official_points")

\* ------------------------------------------------------------------------
\* calculateLeaderboards, part C: individual rankings

BranchNameOrUnknown(branches, id) ==
    IF MapHas(branchMap(branches), id)
    THEN MapGet(branchMap(branches), id).branch_name
    ELSE "Unknown"

RECURSIVE InitIndividualPoints(_, _, _)
InitIndividualPoints(ip, entries, branches) ==
    IF entries = <<>> THEN ip
    ELSE LET entry == Head(entries)
         IN  InitIndividualPoints(
                 IF entry.entry_type = "Individual"
                 THEN MapSet(ip, entry.chest_no,
                             [chest_no |-> entry.chest_no,
                              name |-> entry.entry_name,
                              branch_name |->
                                  BranchNameOrUnknown(branches, entry.branch_id),
                              individual_points |-> 0,
                              group_points |-> 0,
                              total_points |-> 0,
                              category_count |-> 0])
                 ELSE ip,
                 Tail(entries), branches)

\* teamMembers.filter(tm => tm.group_chest_no === result.chest_no)
MembersOf(teamMembers, chest_no) ==
    LET IsMember(tm) == tm.group_chest_no = chest_no
    IN  SelectSeq(teamMembers, IsMember)

\* GroupMemberLoop adding to individual_points instead of group_points.
RECURSIVE GroupMemberLoopIndividualPoints(_, _, _)
GroupMemberLoopIndividualPoints(ip, members, points) ==
    IF members = <<>> THEN ip
    ELSE LET chest == Head(members).member_chest_no
         IN  GroupMemberLoopIndividualPoints(
                 IF MapHas(ip, chest)
                 THEN MapSet(ip, chest,
                             [MapGet(ip, chest) EXCEPT !.individual_points = @ + points])
                 ELSE ip,
                 Tail(members), points)

\* "for (const member of members)"
RECURSIVE GroupMemberLoop(_, _, _)
GroupMemberLoop(ip, members, points) ==
    IF members = <<>> THEN ip
    ELSE LET chest == Head(members).member_chest_no
         IN  GroupMemberLoop(
                 IF MapHas(ip, chest)
                 THEN MapSet(ip, chest,
                             [MapGet(ip, chest) EXCEPT !.group_points = @ + points])
                 ELSE ip,
                 Tail(members), points)

\* One iteration of the second loop over results.
IndividualResultStep(ip, result, events, teamMembers) ==
    IF ~MapHas(eventMap(events), result.event_id) THEN ip
    ELSE LET event == MapGet(eventMap(events), result.event_id)
         IN  IF event.event_type = "Individual"
             THEN IF MapHas(ip, result.chest_no)
                  THEN MapSet(ip, result.chest_no,
                              [MapGet(ip, result.chest_no) EXCEPT
                                  !.individual_points = @ + result.points_awarded])
                  ELSE ip
             ELSE IF event.event_type = "Group"
             THEN GroupMemberLoop(ip, MembersOf(teamMembers, result.chest_no),
                                  result.points_awarded)
             ELSE ip

RECURSIVE IndividualResultLoop(_, _, _, _)
IndividualResultLoop(ip, results, events, teamMembers) ==
    IF results = <<>> THEN ip
    ELSE IndividualResultLoop(
             IndividualResultStep(ip, Head(results), events, teamMembers),
             Tail(results), events, teamMembers)

individualPoints(branches, events, entries, results, teamMembers) ==
    IndividualResultLoop(InitIndividualPoints(<<>>, entries, branches),
                         results, events, teamMembers)

\* ind.total_points = ind.individual_points + ind.group_points
WithTotal(ind) ==
    [ind EXCEPT !.total_points = ind.individual_points + ind.group_points]

allIndividualsOf(branches, events, entries, results, teamMembers) ==
    LET values == MapValues(individualPoints(branches, events, entries, results,
                                             teamMembers))
    IN  [i \in 1..Len(values) |-> WithTotal(values[i])]

\* HasGender taking an entry with no gender for either gender.
HasGenderOrNone(entries, ind, gender) ==
    /\ MapHas(entryMap(entries), ind.chest_no)
    /\ MapGet(entryMap(entries), ind.chest_no).gender \in {gender, Null}

\* entryMap.get(ind.chest_no)?.gender === gender
HasGender(entries, ind, gender) ==
    /\ MapHas(entryMap(entries), ind.chest_no)
    /\ MapGet(entryMap(entries), ind.chest_no).gender = gender

\* allIndividuals.filter(gender).sort(by total_points)
GenderRanking(individuals, entries, gender) ==
    LET Keep(ind) == HasGender(entries, ind, gender)
    IN  SortDesc(SelectSeq(individuals, Keep), "total_points")

\* ------------------------------------------------------------------------
\* What a query resolves to: { data, error } with data an array, or data
\* null, or data null and an error carrying a message.

DataResponse(rows) == [kind |-> "data", rows |-> rows, message |-> ""]
NullResponse == [kind |-> "null", rows |-> <<>>, message |-> ""]
ErrorResponse(msg) == [kind |-> "error", rows |-> <<>>, message |-> msg]
Pending == [kind |-> "pending", rows |-> <<>>, message |-> ""]

Failures == {NullResponse} \cup {ErrorResponse(m) : m \in ErrorMessages}

\* The tables a query can return.  Every table is keyed by its primary id,
\* so no id occurs twice in branches, events or entries; results and
\* team_members may repeat a row.  The branches come in any order; the rows
\* of the other tables come in one order (ascending by their columns), the
\* order the aggregation does not read.
BranchTables ==
    {t \in SeqsUpTo({BranchRow(id) : id \in BranchIds}, Cardinality(BranchIds)) :
        \A i, j \in 1..Len(t) : i # j => t[i].branch_id # t[j].branch_id}

EventTables ==
    {t \in SeqsUpTo(EventRows, Cardinality(EventIds)) :
        \A i, j \in 1..Len(t) : i < j => t[i].event_id < t[j].event_id}

EntryTables ==
    {t \in SeqsUpTo(EntryRows, Cardinality(ChestNos)) :
        \A i, j \in 1..Len(t) : i < j => t[i].chest_no < t[j].chest_no}

ResultOrder(r) == (r.chest_no * 10 + r.event_id) * 10 + r.points_awarded

RECURSIVE ResultTablesOfLen(_)
ResultTablesOfLen(n) ==
    IF n = 0 THEN {<<>>}
    ELSE {Append(t, r) : t \in ResultTablesOfLen(n - 1),
                         r \in ResultRows} \cap
         {t \in Seq(ResultRows) :
             Len(t) < 2 \/ ResultOrder(t[Len(t) - 1]) <= ResultOrder(t[Len(t)])}

ResultTablesByLen == [n \in 0..MaxRows |-> ResultTablesOfLen(n)]

TeamMemberOrder(r) == r.group_chest_no * 10 + r.member_chest_no

RECURSIVE TeamMemberTablesOfLen(_)
TeamMemberTablesOfLen(n) ==
    IF n = 0 THEN {<<>>}
    ELSE {Append(t, r) : t \in TeamMemberTablesOfLen(n - 1),
                         r \in TeamMemberRows} \cap
         {t \in Seq(TeamMemberRows) :
             Len(t) < 2
               \/ TeamMemberOrder(t[Len(t) - 1]) <= TeamMemberOrder(t[Len(t)])}

TeamMemberTablesByLen == [n \in 0..MaxRows |-> TeamMemberTablesOfLen(n)]

\* A response's share of MaxRows: its rows, a failed query counting as one.
Weight(r) == IF r.kind = "data" THEN Len(r.rows) ELSE 1

\* The responses of at most n rows whose data is one of the given tables.
ResponsesWithin(tables, n) ==
    {r \in {DataResponse(t) : t \in tables} \cup Failures : Weight(r) <= n}

ResultResponsesWithin(n) ==
    {DataResponse(t) : t \in UNION {ResultTablesByLen[k] : k \in 0..n}}
        \cup {r \in Failures : n >= 1}

TeamMemberResponsesWithin(n) ==
    {DataResponse(t) : t \in UNION {TeamMemberTablesByLen[k] : k \in 0..n}}
        \cup {r \in Failures : n >= 1}

\* ------------------------------------------------------------------------
\* LeaderboardPage

\* if (errBranches || errEvents || errEntries || errResults || errTeamMembers)
AnyQueryError(resp) == \E i \in 1..Len(resp) : resp[i].kind = "error"

\* errBranches?.message || errEvents?.message || ... : the first message
\* that is not empty, and new Error(undefined).message is "".
RECURSIVE FirstMessage(_)
FirstMessage(resp) ==
    IF resp = <<>> THEN ""
    ELSE IF Head(resp).kind = "error" /\ Head(resp).message # ""
         THEN Head(resp).message
         ELSE FirstMessage(Tail(resp))

\* if (!branches || !events || !entries || !results || !teamMembers)
AnyDataNull(resp) == \E i \in 1..Len(resp) : resp[i].kind # "data"

\* An Error thrown without a message.
EmptyMessage == ""

NullDataMessage ==
    "Failed to fetch all necessary data. One or more queries returned null."

\* if (loading) ... ; if (error) ... ; return the leaderboard
View(isLoading, err) ==
    IF isLoading THEN "loading"
    ELSE IF err # <<>> /\ err[1] # "" THEN "error"
    ELSE "leaderboard"

LbInit ==
    /\ lbPc = "init"
    /\ responses = [i \in 1..5 |-> Pending]
    /\ branchRankings = <<>>
    /\ kalaprathibha = <<>>
    /\ kalathilakam = <<>>
    /\ branchPoints = <<>>
    /\ allIndividuals = <<>>
    /\ loading = TRUE
    /\ error = <<>>

\* useEffect runs calculateLeaderboards up to its await.
CalculateLeaderboardsStart ==
    /\ lbPc = "init"
    /\ lbPc' = "awaiting"
    /\ loading' = TRUE
    /\ error' = <<>>
    /\ UNCHANGED <<responses, branchRankings, kalaprathibha, kalathilakam,
                   branchPoints, allIndividuals, schedVars, resultsVars>>

\* What the part of calculateLeaderboards after the await does with the
\* five responses.
Resume(resp) ==
    /\ UNCHANGED <<schedVars, resultsVars>>
    /\ lbPc' = "done"
    /\ responses' = resp
    /\ loading' = FALSE
    /\ IF AnyQueryError(resp)
       THEN /\ error' = <<FirstMessage(resp)>>
            /\ UNCHANGED <<branchRankings, kalaprathibha, kalathilakam,
                           branchPoints, allIndividuals>>
       ELSE IF AnyDataNull(resp)
       THEN /\ error' = <<NullDataMessage>>
            /\ UNCHANGED <<branchRankings, kalaprathibha, kalathilakam,
                           branchPoints, allIndividuals>>
       ELSE LET branches == resp[1].rows
                events == resp[2].rows
                entries == resp[3].rows
                results == resp[4].rows
                teamMembers == resp[5].rows
                individuals ==
                    allIndividualsOf(branches, events, entries, results, teamMembers)
            IN  /\ branchPoints' = branchPointsOf(branches, events, entries, results)
                /\ allIndividuals' = individuals
                /\ branchRankings' =
                       sortedBranchRankings(branches, events, entries, results)
                /\ kalaprathibha' = GenderRanking(individuals, entries, "Male")
                /\ kalathilakam' = GenderRanking(individuals, entries, "Female")
                /\ UNCHANGED error

\* Two data sets beyond MaxRows, with the six rows each needs.
\* Branch A has results of 10 and 5 points on a championship event and of 3
\* points on another event.
BranchExample ==
    <<DataResponse(<<[branch_id |-> 1, branch_name |-> "A"]>>),
      DataResponse(<<[event_id |-> 1, event_type |-> "Individual",
                      is_championship_event |-> TRUE],
                     [event_id |-> 2, event_type |-> "Group",
                      is_championship_event |-> FALSE]>>),
      DataResponse(<<[chest_no |-> 7, branch_id |-> 1, entry_type |-> "Individual",
                      gender |-> "Female", entry_name |-> "Devi"]>>),
      DataResponse(<<[chest_no |-> 7, event_id |-> 1, points_awarded |-> 10],
                     [chest_no |-> 7, event_id |-> 1, points_awarded |-> 5],
                     [chest_no |-> 7, event_id |-> 2, points_awarded |-> 3]>>),
      DataResponse(<<>>)>>

\* Chest number 101 scores 20 points on an Individual event and belongs to
\* the group 900, which scores 12 points on a Group event.
IndividualExample ==
    <<DataResponse(<<>>),
      DataResponse(<<[event_id |-> 1, event_type |-> "Individual",
                      is_championship_event |-> TRUE],
                     [event_id |-> 2, event_type |-> "Group",
                      is_championship_event |-> TRUE]>>),
      DataResponse(<<[chest_no |-> 101, branch_id |-> 1, entry_type |-> "Individual",
                      gender |-> "Male", entry_name |-> "Arun"],
                     [chest_no |-> 900, branch_id |-> 1, entry_type |-> "Group",
                      gender |-> Null, entry_name |-> "Chorus"]>>),
      DataResponse(<<[chest_no |-> 101, event_id |-> 1, points_awarded |-> 20],
                     [chest_no |-> 900, event_id |-> 2, points_awarded |-> 12]>>),
      DataResponse(<<[group_chest_no |-> 900, member_chest_no |-> 101]>>)>>

\* Promise.all resolves and calculateLeaderboards runs to its end, on five
\* responses within MaxRows or on one of the two larger data sets.
CalculateLeaderboardsResume ==
    /\ lbPc = "awaiting"
    /\ \/ \E rb \in ResponsesWithin(BranchTables, MaxRows) :
          \E re \in ResponsesWithin(EventTables, MaxRows - Weight(rb)) :
          \E rn \in ResponsesWithin(EntryTables, MaxRows - Weight(rb) - Weight(re)) :
          \E rt \in TeamMemberResponsesWithin(
                        MaxRows - Weight(rb) - Weight(re) - Weight(rn)) :
          \E rr \in ResultResponsesWithin(
                        MaxRows - Weight(rb) - Weight(re) - Weight(rn) - Weight(rt)) :
              Resume(<<rb, re, rn, rr, rt>>)
       \/ \E resp \in {BranchExample, IndividualExample} : Resume(resp)

\* ------------------------------------------------------------------------
\* SchedulePage

Categories == {"", "10", "2", "Music"}
Statuses == {"Scheduled", "FINAL"}
ScheduleEventIds == {1, 2}
\* The ids a notification can carry: those and one no fetched event has.
UpdateEventIds == ScheduleEventIds \cup {3}
ScheduleEventNames == <<"Aria", "Ballad", "Chorus">>

ScheduleEventRows(ids) ==
    {[event_id |-> id, event_name |-> ScheduleEventNames[id],
      event_category |-> c, event_status |-> st] :
        id \in ids, c \in Categories, st \in Statuses}

\* .order('event_category').order('event_name'): the position of a category
\* in the database's text order; the names above are in order of their ids.
CategoryOrder(c) ==
    CASE c = "" -> 0 [] c = "10" -> 1 [] c = "2" -> 2 [] c = "Music" -> 3

RowOrder(r) == CategoryOrder(r.event_category) * 10 + r.event_id

\* What the events query can return: the rows of distinct events, ordered.
FetchedTables ==
    {t \in SeqsUpTo(ScheduleEventRows(ScheduleEventIds), Cardinality(ScheduleEventIds)) :
        \A i, j \in 1..Len(t) :
            i < j => /\ RowOrder(t[i]) < RowOrder(t[j])
                     /\ t[i].event_id # t[j].event_id}

\* A property key that is an array index is its number, any other key -1.
IndexOfKey(key) == CASE key = "2" -> 2 [] key = "10" -> 10 [] OTHER -> -1

\* obj[key] = value on an object held as its <<key, value>> pairs in
\* property order: array-index keys in ascending order, then the other keys
\* in the order they were created.
ObjectSet(obj, key, value) ==
    IF MapHas(obj, key) THEN MapSet(obj, key, value)
    ELSE IF IndexOfKey(key) < 0 THEN Append(obj, <<key, value>>)
    ELSE LET Earlier(p) == IndexOfKey(p[1]) >= 0 /\ IndexOfKey(p[1]) < IndexOfKey(key)
             Later(p) == ~Earlier(p)
         IN  SelectSeq(obj, Earlier) \o <<<<key, value>>>> \o SelectSeq(obj, Later)

\* event.event_category || 'Uncategorized'
CategoryOf(event) ==
    IF event.event_category = "" THEN "Uncategorized" ELSE event.event_category

\* One step of the reduce in groupEvents.
GroupEventsStep(acc, event) ==
    LET category == CategoryOf(event)
        withBucket == IF MapHas(acc, category) THEN acc
                      ELSE ObjectSet(acc, category, <<>>)
    IN  ObjectSet(withBucket, category, Append(MapGet(withBucket, category), event))

RECURSIVE GroupEventsFrom(_, _)
GroupEventsFrom(acc, events) ==
    IF events = <<>> THEN acc
    ELSE GroupEventsFrom(GroupEventsStep(acc, Head(events)), Tail(events))

groupEvents(events) == GroupEventsFrom(<<>>, events)

\* newGroups[category].map(event => event.event_id === updatedEvent.event_id
\*                                   ? updatedEvent : event)
ReplaceInBucket(bucket, new) ==
    [i \in 1..Len(bucket) |->
        IF bucket[i].event_id = new.event_id THEN new
        ELSE bucket[i]]

\* ApplyUpdate regrouping the events after the replacement.
RECURSIVE AllEvents(_)
AllEvents(groups) ==
    IF groups = <<>> THEN <<>> ELSE Head(groups)[2] \o AllEvents(Tail(groups))

ApplyUpdateRegroup(currentGroups, new) ==
    groupEvents(ReplaceInBucket(AllEvents(currentGroups), new))

\* The updater the postgres_changes handler passes to setGroupedEvents.
ApplyUpdate(currentGroups, new) ==
    [k \in 1..Len(currentGroups) |->
        <<currentGroups[k][1], ReplaceInBucket(currentGroups[k][2], new)>>]

SchedInit ==
    /\ mounted = FALSE
    /\ schedPc = "init"
    /\ fetchedEvents = <<>>
    /\ delivered = [id \in UpdateEventIds |-> <<>>]
    /\ channel = "none"
    /\ groupedEvents = <<>>
    /\ updatedEvent = <<>>
    /\ scheduleLoading = TRUE
    /\ scheduleError = <<>>

\* useEffect: fetchAndGroupEvents runs up to its await and the channel is
\* subscribed.
ScheduleMount ==
    /\ schedPc = "init"
    /\ schedPc' = "awaiting"
    /\ scheduleLoading' = TRUE
    /\ scheduleError' = <<>>
    /\ channel' = "subscribed"
    /\ mounted' = TRUE
    /\ UNCHANGED <<fetchedEvents, groupedEvents, updatedEvent, delivered, lbVars, resultsVars>>

\* The events query resolves with rows and fetchAndGroupEvents runs to its
\* end.
FetchResolvesData ==
    /\ schedPc = "awaiting"
    /\ \E events \in FetchedTables :
           /\ fetchedEvents' = events
           /\ groupedEvents' = groupEvents(events)
    /\ schedPc' = "done"
    /\ scheduleLoading' = FALSE
    /\ UNCHANGED <<mounted, scheduleError, channel, updatedEvent, delivered, lbVars, resultsVars>>

\* The events query resolves with neither rows nor an error.
FetchResolvesNull ==
    /\ schedPc = "awaiting"
    /\ schedPc' = "done"
    /\ scheduleLoading' = FALSE
    /\ UNCHANGED <<mounted, fetchedEvents, groupedEvents, scheduleError, channel,
                   updatedEvent, delivered, lbVars, resultsVars>>

\* The events query resolves with an error, which is thrown as it is: the
\* message shown is the error's own if the client library's error is an
\* Error, the fixed one if it is a plain object.
FetchResolvesError ==
    /\ schedPc = "awaiting"
    /\ \E m \in ErrorMessages \cup {"An unexpected error occurred"} :
           scheduleError' = <<m>>
    /\ schedPc' = "done"
    /\ scheduleLoading' = FALSE
    /\ UNCHANGED <<mounted, fetchedEvents, groupedEvents, channel, updatedEvent,
                   delivered, lbVars, resultsVars>>

\* An UPDATE notification is delivered to the handler.
HandleUpdate ==
    /\ channel = "subscribed"
    /\ \E new \in ScheduleEventRows(UpdateEventIds) :
           /\ updatedEvent' = <<new>>
           /\ delivered' = [delivered EXCEPT ![new.event_id] = <<new>>]
           /\ groupedEvents' = ApplyUpdate(groupedEvents, new)
    /\ UNCHANGED <<mounted, schedPc, fetchedEvents, scheduleLoading, scheduleError,
                   channel, lbVars, resultsVars>>

\* ScheduleUnmount with a cleanup that leaves the channel subscribed.
ScheduleUnmountKeepsChannel ==
    /\ mounted
    /\ mounted' = FALSE
    /\ UNCHANGED <<schedPc, fetchedEvents, channel, groupedEvents, updatedEvent,
                   delivered, scheduleLoading, scheduleError, lbVars, resultsVars>>

\* The effect's cleanup: supabase.removeChannel(channel).
ScheduleUnmount ==
    /\ mounted
    /\ mounted' = FALSE
    /\ channel' = "removed"
    /\ UNCHANGED <<schedPc, fetchedEvents, groupedEvents, updatedEvent, delivered,
                   scheduleLoading, scheduleError, lbVars, resultsVars>>

\* ------------------------------------------------------------------------
\* ResultsPage

\* The number of results queries that can be awaited at a time.
MaxQueries == 2

ResultsEventRows ==
    {[event_id |-> id, event_name |-> ScheduleEventNames[id], event_status |-> st] :
        id \in ScheduleEventIds, st \in Statuses}

\* What the events query can return: the rows of distinct events, in the
\* order of their names.
ResultsEventTables ==
    {t \in SeqsUpTo(ResultsEventRows, Cardinality(ScheduleEventIds)) :
        \A i, j \in 1..Len(t) : i < j => t[i].event_id < t[j].event_id}

\* What a results query can return: rows in ascending rank.
EventResultTables ==
    {SubSeq(<<[rank |-> 1, points_awarded |-> 5], [rank |-> 2, points_awarded |-> 3]>>,
            1, n) : n \in 0..2}

\* The render reaches the list of events: neither loading nor a truthy error.
ListShown == ~resultsLoading /\ resultsError \in {<<>>, <<"">>}

\* A sequence without its element at position i.
RemoveAt(s, i) == SubSeq(s, 1, i - 1) \o SubSeq(s, i + 1, Len(s))

ResultsInit ==
    /\ resultsPc = "init"
    /\ resultsEvents = <<>>
    /\ resultsLoading = TRUE
    /\ resultsError = <<>>
    /\ clickedEvent = <<>>
    /\ selectedEvent = <<>>
    /\ eventResults = <<>>
    /\ isModalLoading = FALSE
    /\ resultQueries = <<>>

\* useEffect: fetchAllEvents runs up to its await.
ResultsMount ==
    /\ resultsPc = "init"
    /\ resultsPc' = "awaiting"
    /\ resultsLoading' = TRUE
    /\ resultsError' = <<>>
    /\ UNCHANGED <<resultsEvents, clickedEvent, selectedEvent, eventResults, isModalLoading,
                   resultQueries, lbVars, schedVars>>

\* The events query resolves with rows and fetchAllEvents runs to its end.
EventsResolveData ==
    /\ resultsPc = "awaiting"
    /\ \E data \in ResultsEventTables : resultsEvents' = data
    /\ resultsPc' = "done"
    /\ resultsLoading' = FALSE
    /\ UNCHANGED <<resultsError, clickedEvent, selectedEvent, eventResults,
                   isModalLoading, resultQueries, lbVars, schedVars>>

\* The events query resolves with neither rows nor an error.
EventsResolveNull ==
    /\ resultsPc = "awaiting"
    /\ resultsPc' = "done"
    /\ resultsLoading' = FALSE
    /\ UNCHANGED <<resultsEvents, resultsError, clickedEvent, selectedEvent, eventResults,
                   isModalLoading, resultQueries, lbVars, schedVars>>

\* The events query resolves with an error, which is thrown as it is.
EventsResolveError ==
    /\ resultsPc = "awaiting"
    /\ \E m \in ErrorMessages \cup {"An unexpected error occurred"} :
           resultsError' = <<m>>
    /\ resultsPc' = "done"
    /\ resultsLoading' = FALSE
    /\ UNCHANGED <<resultsEvents, clickedEvent, selectedEvent, eventResults, isModalLoading,
                   resultQueries, lbVars, schedVars>>

\* A click on an event of the list, which the modal's overlay covers while
\* the modal is open: handleEventClick up to its return or its await.
HandleEventClick ==
    /\ ListShown
    /\ selectedEvent = <<>>
    /\ \E i \in 1..Len(resultsEvents) :
           LET event == resultsEvents[i]
           IN  /\ clickedEvent' = <<event>>
               /\ IF event.event_status = "Scheduled"
                  THEN UNCHANGED <<selectedEvent, isModalLoading, eventResults,
                                   resultQueries>>
                  ELSE /\ Len(resultQueries) < MaxQueries
                       /\ selectedEvent' = <<event>>
                       /\ isModalLoading' = TRUE
                       /\ eventResults' = <<>>
                       /\ resultQueries' = Append(resultQueries, event.event_id)
    /\ UNCHANGED <<resultsPc, resultsEvents, resultsLoading, resultsError, lbVars, schedVars>>

\* A results query resolves with rows and its handleEventClick runs to its
\* end.
ResultsQueryResolvesData ==
    /\ \E i \in 1..Len(resultQueries) : resultQueries' = RemoveAt(resultQueries, i)
    /\ \E data \in EventResultTables : eventResults' = data
    /\ resultsLoading' = FALSE
    /\ UNCHANGED <<resultsPc, resultsEvents, resultsError, clickedEvent, selectedEvent,
                   isModalLoading, lbVars, schedVars>>

\* A results query resolves with neither rows nor an error.
ResultsQueryResolvesNull ==
    /\ \E i \in 1..Len(resultQueries) : resultQueries' = RemoveAt(resultQueries, i)
    /\ resultsLoading' = FALSE
    /\ UNCHANGED <<resultsPc, resultsEvents, resultsError, clickedEvent, selectedEvent,
                   eventResults, isModalLoading, lbVars, schedVars>>

\* A results query resolves with an error, which is thrown as it is.
ResultsQueryResolvesError ==
    /\ \E i \in 1..Len(resultQueries) : resultQueries' = RemoveAt(resultQueries, i)
    /\ \E m \in ErrorMessages \cup {"An unexpected error occurred"} :
           resultsError' = <<m>>
    /\ resultsLoading' = FALSE
    /\ UNCHANGED <<resultsPc, resultsEvents, clickedEvent, selectedEvent, eventResults,
                   isModalLoading, lbVars, schedVars>>

\* A click on the modal's overlay or on its Close button.
CloseModal ==
    /\ ListShown
    /\ selectedEvent # <<>>
    /\ selectedEvent' = <<>>
    /\ UNCHANGED <<resultsPc, resultsEvents, resultsLoading, resultsError, clickedEvent,
                   eventResults, isModalLoading, resultQueries, lbVars, schedVars>>

\* ------------------------------------------------------------------------
\* The three pages are separate components, each with a specification.

Init == LbInit /\ SchedInit /\ ResultsInit

vars == <<lbVars, schedVars, resultsVars>>

\* LeaderboardPage
Next == CalculateLeaderboardsStart \/ CalculateLeaderboardsResume

Spec == Init /\ [][Next]_vars

\* SchedulePage
ScheduleNext ==
    \/ ScheduleMount
    \/ FetchResolvesData
    \/ FetchResolvesNull
    \/ FetchResolvesError
    \/ HandleUpdate
    \/ ScheduleUnmount

ScheduleSpec == Init /\ [][ScheduleNext]_vars

\* ResultsPage
ResultsNext ==
    \/ ResultsMount
    \/ EventsResolveData
    \/ EventsResolveNull
    \/ EventsResolveError
    \/ HandleEventClick
    \/ ResultsQueryResolvesData
    \/ ResultsQueryResolvesNull
    \/ ResultsQueryResolvesError
    \/ CloseModal

ResultsSpec == Init /\ [][ResultsNext]_vars

\* ------------------------------------------------------------------------
\* Properties of LeaderboardPage (checked under Spec)

\* The five tables calculateLeaderboards worked on.
inBranches == responses[1].rows
inEvents == responses[2].rows
inEntries == responses[3].rows
inResults == responses[4].rows
inTeamMembers == responses[5].rows

\* The calculation ran: every query returned rows.
Computed == lbPc = "done" /\ \A i \in 1..5 : responses[i].kind = "data"

Range(s) == {s[i] : i \in 1..Len(s)}

Count(s, x) == Cardinality({i \in 1..Len(s) : s[i] = x})

EventResolves(result) == \E e \in Range(inEvents) : e.event_id = result.event_id
EventOf(result) == CHOOSE e \in Range(inEvents) : e.event_id = result.event_id

EntryResolves(result) == \E e \in Range(inEntries) : e.chest_no = result.chest_no
EntryOf(result) == CHOOSE e \in Range(inEntries) : e.chest_no = result.chest_no

\* The sum of points_awarded over the results at the given positions.
PointsAt(positions) ==
    SumSeq([i \in 1..Len(inResults) |->
               IF i \in positions THEN inResults[i].points_awarded ELSE 0])

\* C1: every branch of the input has exactly one BranchRanking; its
\* total_points is the sum of points_awarded over the results whose event
\* and entry resolve and whose entry is of the branch, and its
\* official_points the same sum over the championship events only.
C1_BranchPointSums ==
    Computed =>
        \A b \in Range(inBranches) :
            LET OfBranch(result) ==
                    /\ EventResolves(result)
                    /\ EntryResolves(result)
                    /\ EntryOf(result).branch_id = b.branch_id
                Official(result) ==
                    OfBranch(result) /\ EventOf(result).is_championship_event
                mine == {k \in 1..Len(branchRankings) :
                            branchRankings[k].branch_id = b.branch_id}
            IN  /\ Cardinality(mine) = 1
                /\ \A k \in mine :
                       /\ branchRankings[k].total_points =
                              PointsAt({i \in 1..Len(inResults) : OfBranch(inResults[i])})
                       /\ branchRankings[k].official_points =
                              PointsAt({i \in 1..Len(inResults) : Official(inResults[i])})

\* Championship results of 10 and 5 and another result of 3 gave a branch
\* official_points = 15 and total_points = 18.
C1_Witness ==
    /\ Computed
    /\ \E r \in Range(branchRankings) :
           r.official_points = 15 /\ r.total_points = 18

\* C2 as stated: official_points <= total_points in every BranchRanking,
\* whatever the points_awarded are.
C2_OfficialAtMostTotal ==
    \A r \in Range(branchRankings) : r.official_points <= r.total_points

\* C2 as amended: official_points <= total_points in every BranchRanking
\* when no result has a negative points_awarded.
C2_OfficialAtMostTotalNonNegative ==
    (Computed /\ \A result \in Range(inResults) : result.points_awarded >= 0) =>
        \A r \in Range(branchRankings) : r.official_points <= r.total_points

\* Non-negative points gave a branch championship points and more points
\* in total.
C2_Witness ==
    /\ Computed
    /\ \A result \in Range(inResults) : result.points_awarded >= 0
    /\ \E r \in Range(branchRankings) :
           0 < r.official_points /\ r.official_points < r.total_points

AllResolve ==
    \A result \in Range(inResults) :
        /\ EventResolves(result)
        /\ EntryResolves(result)
        /\ \E b \in Range(inBranches) : b.branch_id = EntryOf(result).branch_id

\* C3: when the event, the entry and the entry's branch of every result
\* resolve, the total_points of the BranchRankings add up to the
\* points_awarded of all results.
C3_TotalsConserved ==
    (Computed /\ AllResolve) =>
        SumSeq([k \in 1..Len(branchRankings) |-> branchRankings[k].total_points])
            = SumSeq([i \in 1..Len(inResults) |-> inResults[i].points_awarded])

\* Several results, all resolving, were added up.
C3_Witness ==
    /\ Computed
    /\ AllResolve
    /\ Len(inResults) >= 2
    /\ \E r \in Range(branchRankings) : r.total_points # 0

\* C4: every Individual entry has exactly one IndividualRanking, with
\* individual_points the sum of points_awarded over the results of its chest
\* number on Individual events, group_points the sum over the results on
\* Group events of points_awarded once per TeamMember row that joins the
\* result's chest number to the entry's, and total_points the sum of the
\* two; a Group entry has no IndividualRanking.
C4_IndividualPointSums ==
    Computed =>
        \A e \in Range(inEntries) :
            LET Direct(result) ==
                    /\ EventResolves(result)
                    /\ EventOf(result).event_type = "Individual"
                    /\ result.chest_no = e.chest_no
                Memberships(result) ==
                    Cardinality({j \in 1..Len(inTeamMembers) :
                        /\ inTeamMembers[j].group_chest_no = result.chest_no
                        /\ inTeamMembers[j].member_chest_no = e.chest_no})
                viaGroup ==
                    SumSeq([i \in 1..Len(inResults) |->
                        IF /\ EventResolves(inResults[i])
                           /\ EventOf(inResults[i]).event_type = "Group"
                        THEN inResults[i].points_awarded * Memberships(inResults[i])
                        ELSE 0])
                direct == PointsAt({i \in 1..Len(inResults) : Direct(inResults[i])})
                mine == {k \in 1..Len(allIndividuals) :
                            allIndividuals[k].chest_no = e.chest_no}
            IN  IF e.entry_type = "Individual"
                THEN /\ Cardinality(mine) = 1
                     /\ \A k \in mine :
                            /\ allIndividuals[k].individual_points = direct
                            /\ allIndividuals[k].group_points = viaGroup
                            /\ allIndividuals[k].total_points = direct + viaGroup
                ELSE mine = {}

\* Chest number 101 scored 20 points itself and 12 as a member of a group:
\* 20 / 12 / 32, and the group has no ranking.
C4_Witness ==
    /\ Computed
    /\ \E e \in Range(inEntries) : e.entry_type = "Group"
    /\ \E ind \in Range(allIndividuals) :
           /\ ind.individual_points = 20
           /\ ind.group_points = 12
           /\ ind.total_points = 32

\* The results without the i-th.
WithoutResult(i) ==
    SubSeq(inResults, 1, i - 1) \o SubSeq(inResults, i + 1, Len(inResults))

\* C5: a result whose event_id is not in events or whose chest_no is not in
\* entries adds to no point total: the three lists are what they are
\* without the result.
C5_UnresolvedResultSkipped ==
    Computed =>
        \A i \in 1..Len(inResults) :
            (~EventResolves(inResults[i]) \/ ~EntryResolves(inResults[i])) =>
                LET individuals ==
                        allIndividualsOf(inBranches, inEvents, inEntries,
                                         WithoutResult(i), inTeamMembers)
                IN  /\ branchRankings =
                           sortedBranchRankings(inBranches, inEvents, inEntries,
                                                WithoutResult(i))
                    /\ kalaprathibha = GenderRanking(individuals, inEntries, "Male")
                    /\ kalathilakam = GenderRanking(individuals, inEntries, "Female")

GenderOfChest(chest_no) ==
    (CHOOSE e \in Range(inEntries) : e.chest_no = chest_no).gender

Lists(list, chest_no) == \E r \in Range(list) : r.chest_no = chest_no

\* C6: an IndividualRanking is in kalaprathibha exactly when its entry's
\* gender is Male, in kalathilakam exactly when it is Female, and so in at
\* most one of the two and in neither when the gender is null.
C6_GenderPartition ==
    Computed =>
        \A ind \in Range(allIndividuals) :
            /\ Lists(kalaprathibha, ind.chest_no)
                   <=> GenderOfChest(ind.chest_no) = "Male"
            /\ Lists(kalathilakam, ind.chest_no)
                   <=> GenderOfChest(ind.chest_no) = "Female"
            /\ ~(Lists(kalaprathibha, ind.chest_no) /\ Lists(kalathilakam, ind.chest_no))
            /\ GenderOfChest(ind.chest_no) = Null =>
                   /\ ~Lists(kalaprathibha, ind.chest_no)
                   /\ ~Lists(kalathilakam, ind.chest_no)

\* An individual with no gender is in neither list while a male one is in
\* kalaprathibha.
C6_Witness ==
    /\ Computed
    /\ \E ind \in Range(allIndividuals) : GenderOfChest(ind.chest_no) = Null
    /\ \E ind \in Range(allIndividuals) :
           GenderOfChest(ind.chest_no) = "Male" /\ Lists(kalaprathibha, ind.chest_no)

NonIncreasing(list, field) ==
    \A i \in 1..(Len(list) - 1) : list[i][field] >= list[i + 1][field]

IsPermutation(a, b) ==
    /\ Len(a) = Len(b)
    /\ \A x \in Range(a) \cup Range(b) : Count(a, x) = Count(b, x)

IndividualsOfGender(gender) ==
    LET Is(ind) == GenderOfChest(ind.chest_no) = gender
    IN  SelectSeq(allIndividuals, Is)

\* C7: branchRankings is in non-increasing order of official_points,
\* kalaprathibha and kalathilakam are in non-increasing order of
\* total_points, and each list is a permutation of its unsorted records.
C7_SortedPermutations ==
    Computed =>
        /\ NonIncreasing(branchRankings, "official_points")
        /\ NonIncreasing(kalaprathibha, "total_points")
        /\ NonIncreasing(kalathilakam, "total_points")
        /\ IsPermutation(branchRankings, MapValues(branchPoints))
        /\ IsPermutation(kalaprathibha, IndividualsOfGender("Male"))
        /\ IsPermutation(kalathilakam, IndividualsOfGender("Female"))

\* The sort moved the second branch ahead of the first.
C7_Witness ==
    /\ Computed
    /\ Len(branchRankings) = 2
    /\ branchRankings # MapValues(branchPoints)
    /\ branchRankings[1].official_points > branchRankings[2].official_points

NoErrorReported(resp) == \A i \in 1..5 : resp[i].kind # "error"
SomeDataNull(resp) == \E i \in 1..5 : resp[i].kind = "null"

\* C8: when no query reports an error and some data is null, the step that
\* ends calculateLeaderboards sets no ranking list and computes nothing,
\* sets a message that is not empty and ends with loading false.
C8_NullDataFails ==
    [][(lbPc = "awaiting" /\ lbPc' = "done"
          /\ NoErrorReported(responses') /\ SomeDataNull(responses')) =>
            /\ UNCHANGED <<branchRankings, kalaprathibha, kalathilakam,
                           branchPoints, allIndividuals>>
            /\ error' # <<>>
            /\ error'[1] # ""
            /\ loading' = FALSE]_vars

\* Some data was null while another query returned rows, and the
\* calculation ended with a message.
C8_Witness ==
    /\ lbPc = "done"
    /\ NoErrorReported(responses)
    /\ SomeDataNull(responses)
    /\ \E i \in 1..5 : responses[i].kind = "data" /\ responses[i].rows # <<>>
    /\ error # <<>>
    /\ ~loading

\* C9: when any query reports an error, no ranking list is set and, loading
\* being false, the view shows the error message.
C9_QueryErrorShown ==
    (lbPc = "done" /\ \E i \in 1..5 : responses[i].kind = "error") =>
        /\ branchRankings = <<>>
        /\ kalaprathibha = <<>>
        /\ kalathilakam = <<>>
        /\ ~loading
        /\ View(loading, error) = "error"

\* ------------------------------------------------------------------------
\* Properties of SchedulePage (checked under ScheduleSpec)

PositionsOf(events, category) ==
    {i \in 1..Len(events) : CategoryOf(events[i]) = category}

\* The first position of the input sequence at which a category appears.
FirstAppearance(events, category) ==
    CHOOSE i \in PositionsOf(events, category) :
        \A j \in PositionsOf(events, category) : i <= j

\* The events of the input sequence that fall in a category, in its order.
EventsOfCategory(events, category) ==
    LET InCategory(e) == CategoryOf(e) = category
    IN  SelectSeq(events, InCategory)

\* C11: when the events query resolves with rows, every row is in exactly
\* one bucket, the one keyed by its event_category or by "Uncategorized" for
\* an empty category; each bucket holds its rows in the order of the query's
\* result, the bucket keys are enumerated in the order in which their
\* categories first appear in the result, and the buckets hold no other row.
C11_GroupingKeepsOrder ==
    [][(schedPc = "awaiting" /\ schedPc' = "done" /\ scheduleError' = <<>>) =>
          LET events == fetchedEvents'
              groups == groupedEvents'
          IN  /\ \A i \in 1..Len(events) :
                     Cardinality({kj \in (1..Len(groups)) \X (1..Len(events)) :
                                     /\ kj[2] <= Len(groups[kj[1]][2])
                                     /\ groups[kj[1]][2][kj[2]] = events[i]}) = 1
              /\ \A k \in 1..Len(groups) :
                     /\ groups[k][2] # <<>>
                     /\ groups[k][2] = EventsOfCategory(events, groups[k][1])
              /\ \A k1, k2 \in 1..Len(groups) :
                     k1 < k2 => FirstAppearance(events, groups[k1][1])
                                    < FirstAppearance(events, groups[k2][1])]_vars

\* C12: the channel is subscribed in the step that mounts the view and in
\* no other step, and removed in the step that unmounts it: a mounted view
\* holds the one subscribed channel, a view that is not mounted holds none,
\* a removed channel stays removed, and a step taken while the view is not
\* mounted delivers no notification and, unless it is the fetch completing,
\* leaves groupedEvents as it is.
C12_ChannelLifetime ==
    [][/\ mounted' <=> channel' = "subscribed"
       /\ (channel # "subscribed" /\ channel' = "subscribed") =>
              (channel = "none" /\ schedPc = "init" /\ ~mounted)
       /\ (mounted /\ ~mounted') => channel' = "removed"
       /\ channel = "removed" => channel' = "removed"
       /\ ~mounted =>
              /\ delivered' = delivered
              /\ updatedEvent' = updatedEvent
              /\ schedPc' = schedPc => groupedEvents' = groupedEvents]_vars

\* The view was torn down after its fetch completed with events and a
\* notification had been handled.
C12_Witness ==
    /\ ~mounted
    /\ channel = "removed"
    /\ schedPc = "done"
    /\ groupedEvents # <<>>
    /\ updatedEvent # <<>>

\* C13: once the fetch has completed (a notification is handled in the step
\* that delivers it), every event a mounted view shows is the row of the
\* last notification delivered for its event_id, or its fetched row if none
\* was delivered, whether the notifications came before or after the fetch
\* completed.
C13_NoUpdateLost ==
    (mounted /\ schedPc = "done") =>
        \A k \in 1..Len(groupedEvents) :
            \A e \in Range(groupedEvents[k][2]) :
                IF delivered[e.event_id] # <<>>
                THEN e = delivered[e.event_id][1]
                ELSE e \in Range(fetchedEvents)

\* C14: a click on a Scheduled event opens no modal and issues no query; a
\* click on any other event selects it, puts the modal in its loading state
\* with no results and issues one query; and whenever no results query is
\* awaited any more, so that no step of a handleEventClick remains to be
\* taken, the modal is out of its loading state.
C14_ModalLeavesLoading ==
    [][/\ (clickedEvent' # clickedEvent
              /\ clickedEvent'[1].event_status = "Scheduled") =>
              UNCHANGED <<selectedEvent, isModalLoading, eventResults, resultQueries>>
       /\ (clickedEvent' # clickedEvent
              /\ clickedEvent'[1].event_status # "Scheduled") =>
              /\ selectedEvent' = clickedEvent'
              /\ isModalLoading'
              /\ eventResults' = <<>>
              /\ resultQueries' = Append(resultQueries, clickedEvent'[1].event_id)
       /\ Len(resultQueries') > Len(resultQueries) =>
              /\ selectedEvent' # <<>>
              /\ selectedEvent'[1].event_status # "Scheduled"
              /\ isModalLoading'
       /\ resultQueries' = <<>> => ~isModalLoading']_vars

====
